---- MODULE Spec2Model ----
(***************************************************************************)
(* A model of package set (set.go): Set[V], a map m guarded by a           *)
(* sync.RWMutex mux, and its methods.  Every method is modelled at the     *)
(* granularity of its lock operations and of its accesses to the map, so   *)
(* that callers running on several goroutines interleave as they do in Go. *)
(***************************************************************************)
EXTENDS Integers, Sequences, FiniteSets, TLC

VARIABLES
  m,      \* m[S]: the member map of set S (its keys), set.go line 11
  mux,    \* mux[S]: the state of S's sync.RWMutex, set.go line 13
  stack,  \* stack[th]: the call stack of goroutine th, innermost frame first
  ret,    \* ret[th]: the value returned by the last call that returned on th
  prog,   \* prog[th]: the calls goroutine th makes, in order (<<>>: any, one by one)
  cur,    \* cur[th]: the public call goroutine th is in (fn = "none": idle)
  fatal,  \* the runtime stopped the process (a detected concurrent map access)
  abs,    \* abs[S]: the mathematical set the calls made so far denote
  m0,     \* m0[S]: the members of S after construction
  popped, \* popped[S][x]: how many PopAny calls on S returned (x, true)
  onlyPop,\* onlyPop[S]: nothing but PopAny has mutated S since construction
  derived,\* derived[S]: the call whose result S holds, its operands unchanged since
  ncalls, \* ncalls[th]: public calls goroutine th has made so far
  ref     \* ref[X]: the Set object the callers' variable X points to

vars == <<m, mux, stack, ret, prog, cur, fatal, abs, m0, popped, onlyPop,
          derived, ncalls, ref>>

----------------------------------------------------------------------------
(* Bounds of the model. *)

\* Goroutines inserting concurrently, and values each of them inserts.
Inserters == 2
PerThread == 2
\* The universe of member values of the other specifications.
NumValues == 2
\* Longest argument list of a variadic call.
MaxArgs == 2
\* Public calls of the single caller.
MaxCalls == 3

V == 1..NumValues
NoThread == 0

Threads == DOMAIN stack
SetIds == DOMAIN m

RECURSIVE SeqsUpTo(_, _)
SeqsUpTo(S, n) ==
  IF n = 0 THEN {<<>>}
  ELSE LET shorter == SeqsUpTo(S, n - 1)
       IN shorter \cup {Append(q, x) : q \in {r \in shorter : Len(r) = n - 1}, x \in S}

ArgLists == SeqsUpTo(V, MaxArgs)

Range(q) == {q[j] : j \in 1..Len(q)}

----------------------------------------------------------------------------
(* Return values: one record shape for every method.                       *)

NoRet == [kind |-> "none", b |-> FALSE, n |-> 0, set |-> {}, seq |-> <<>>, obj |-> "none"]
RetVoid == [NoRet EXCEPT !.kind = "void"]
RetBool(b) == [NoRet EXCEPT !.kind = "bool", !.b = b]
RetInt(n) == [NoRet EXCEPT !.kind = "int", !.n = n]
\* A *Set[V]: the object returned (obj) and its members.
RetSet(S, obj) == [NoRet EXCEPT !.kind = "set", !.set = S, !.obj = obj]
RetSeq(q) == [NoRet EXCEPT !.kind = "seq", !.seq = q]
\* PopAny's (v, bool): the zero value of V is written 0.  A mutant always
\* reports a value found.
RetPopFound(x, found) == [NoRet EXCEPT !.kind = "pop", !.n = x, !.b = TRUE]
RetPop(x, found) == [NoRet EXCEPT !.kind = "pop", !.n = x, !.b = found]
\* fmt.Sprint of a slice: the elements in the slice's order, between brackets.
RetStr(q) == [NoRet EXCEPT !.kind = "string", !.seq = <<"[">> \o q \o <<"]">>]

----------------------------------------------------------------------------
(* Calls and frames.                                                       *)

NoCall == [fn |-> "none", self |-> "none", other |-> "none", v |-> <<>>, dst |-> "none"]
Call(fn, self, other, v, dst) ==
  [fn |-> fn, self |-> self, other |-> other, v |-> v, dst |-> dst]

\* The object New[V]() returns to a method of receiver S: a new one ("new": no
\* variable points to it yet).  A mutant returns the receiver itself.
ReceiverRef(S) == S
NewRef(S) == "new"

\* A frame of method fn on receiver self: its arguments and its locals (u, the
\* members of the set the method builds, and uobj, that set's object).
Frame(fn, self, other, v) ==
  [fn |-> fn, self |-> self, other |-> other, v |-> v,
   pc |-> "enter", resume |-> "", i |-> 1, seen |-> {}, u |-> {}, uobj |-> NewRef(self),
   k |-> 0, n |-> 0, walk |-> "none", oth |-> "none", vals |-> <<>>]

Top(th) == Head(stack[th])
Running(th) == ~fatal /\ stack[th] # <<>>

\* What no method touches: the callers' programs and the history variables.
env == <<prog, cur, abs, m0, popped, onlyPop, derived, ncalls, ref>>

\* The stacks with th's innermost frame replaced by f.
SetTop(th, f) == [stack EXCEPT ![th] = <<f>> \o Tail(@)]
Goto(th, pc) == SetTop(th, [Top(th) EXCEPT !.pc = pc])
\* The stacks with frame g pushed on th's, th's own frame left as f.
Push(th, f, g) == [stack EXCEPT ![th] = <<g, f>> \o Tail(@)]
Pop(th) == [stack EXCEPT ![th] = Tail(@)]

----------------------------------------------------------------------------
(* sync.RWMutex, as Go implements it: Lock takes the writers' mutex w and  *)
(* announces the writer, then waits for the readers that hold the lock to  *)
(* leave; RLock blocks while a writer is announced; Unlock admits every    *)
(* reader that blocked meanwhile, then releases w.                         *)

FreshMux(T) == [w |-> NoThread, active |-> FALSE, readers |-> [o \in T |-> 0], rwait |-> {}]

NoReaders(S) == \A o \in Threads : mux[S].readers[o] = 0
HoldsShared(th, S) == mux[S].readers[th] > 0
HoldsExclusive(th, S) == mux[S].w = th /\ mux[S].active
Holds(th, S) == HoldsShared(th, S) \/ HoldsExclusive(th, S)

\* The stacks stk with every goroutine of W (blocked in RLock) resumed.
Wake(stk, W) ==
  [o \in DOMAIN stk |->
     IF o \in W
     THEN <<[Head(stk[o]) EXCEPT !.pc = Head(stk[o]).resume, !.resume = ""]>> \o Tail(stk[o])
     ELSE stk[o]]

\* s.mux.RLock() by th, continuing at next.
RLock(th, S, next) ==
  IF mux[S].w = NoThread
  THEN /\ mux' = [mux EXCEPT ![S].readers[th] = @ + 1]
       /\ stack' = Goto(th, next)
  ELSE /\ mux' = [mux EXCEPT ![S].rwait = @ \cup {th}]
       /\ stack' = SetTop(th, [Top(th) EXCEPT !.pc = "rwait", !.resume = next])

\* The mutex after th's RUnlock of S in mutex state mx.
RUnlocked(mx, th, S) == [mx EXCEPT ![S].readers[th] = @ - 1]

\* s.mux.Lock() by th, continuing at next: as RLock, a mutant of Lock.
LockShared(th, S, next) == RLock(th, S, next)
Lock(th, S, next) ==
  /\ mux[S].w = NoThread
  /\ IF NoReaders(S)
     THEN /\ mux' = [mux EXCEPT ![S].w = th, ![S].active = TRUE]
          /\ stack' = Goto(th, next)
     ELSE /\ mux' = [mux EXCEPT ![S].w = th]
          /\ stack' = SetTop(th, [Top(th) EXCEPT !.pc = "drain", !.resume = next])

\* The announced writer th proceeds when the last reader has left.
LockDrained(th) ==
  /\ Running(th) /\ Top(th).pc = "drain"
  /\ LET S == Top(th).self
     IN /\ mux[S].w = th
        /\ NoReaders(S)
        /\ mux' = [mux EXCEPT ![S].active = TRUE]
        /\ stack' = SetTop(th, [Top(th) EXCEPT !.pc = Top(th).resume, !.resume = ""])
  /\ UNCHANGED <<m, ret, fatal, env>>

\* The mutex after th's Unlock of S: the blocked readers are admitted.
Unlocked(th, S) ==
  [mux EXCEPT ![S] = [w |-> NoThread, active |-> FALSE,
                      readers |-> [o \in Threads |->
                                     IF o \in mux[S].rwait THEN mux[S].readers[o] + 1
                                     ELSE mux[S].readers[o]],
                      rwait |-> {}]]

----------------------------------------------------------------------------
(* Accesses to the map.  Go maps are not safe for concurrent use: a write  *)
(* that is not ordered with another goroutine's access is a data race,     *)
(* whose outcomes are the write taking effect, the write being lost, or    *)
(* the runtime stopping the process.                                       *)

Writers == {"Insert", "Delete", "PopAny"}

\* o is inside a method that writes S's map.
InWriter(o, S) ==
  \E j \in 1..Len(stack[o]) : stack[o][j].fn \in Writers /\ stack[o][j].self = S

\* th's write of S's map is not ordered with another goroutine's access.
WriteRaces(th, S) == \E o \in Threads \ {th} : Holds(o, S)
\* th's read of S's map is not ordered with another goroutine's write.
ReadRaces(th, S) == \E o \in Threads \ {th} : Holds(o, S) /\ InWriter(o, S)

\* The maps a write of S's map by th, meant to leave new, may leave.
Written(th, S, new) ==
  IF WriteRaces(th, S) THEN {[m EXCEPT ![S] = new], m} ELSE {[m EXCEPT ![S] = new]}

\* s.m[x] = struct{}{}: the keys afterwards.  A mutant makes a fresh map of it.
AssignedAlone(S, x) == {x}
Assigned(S, x) == m[S] \cup {x}
\* delete(s.m, k): the keys afterwards.  A mutant deletes nothing.
DeletedNothing(S, k) == m[S]
Deleted(S, k) == m[S] \ {k}

MayCrashOnWrite(th, S) == IF WriteRaces(th, S) THEN BOOLEAN ELSE {FALSE}
MayCrashOnRead(th, S) == IF ReadRaces(th, S) THEN BOOLEAN ELSE {FALSE}

----------------------------------------------------------------------------
(* The methods.  A frame's pc names the statement it is about to execute;  *)
(* a return runs the deferred unlocks, last deferred first.                *)

\* New[V](v...) and Insert on a set no other goroutine can reach yet (u, t in
\* Clone, Difference, Intersection, Union): its lock is free, the calls are local.
\* A mutant of the local Insert inserts nothing.
New(q) == Range(q)
LocalInsertNothing(u, q) == u
LocalInsert(u, q) == u \cup Range(q)
\* The maps after the values q are inserted into the set under construction,
\* whose object is obj: no map of a set a variable points to changes, unless
\* obj is such a set.
StoredInto(obj, q) ==
  IF obj = "new" THEN m ELSE [m EXCEPT ![obj] = LocalInsert(@, q)]

\* The mutex after the deferred t.mux.RUnlock() and s.mux.RUnlock().
RUnlockedBoth(th, S, T) == RUnlocked(RUnlocked(mux, th, T), th, S)

\* Whether a loop over the arguments v has an i-th one to look at.  A mutant
\* leaves the last argument out.
InArgsButLast(i, v) == i < Len(v)
InArgs(i, v) == i <= Len(v)

\* func (s *Set[V]) Insert(v ...V)
Insert(th) ==
  /\ Running(th) /\ Top(th).fn = "Insert"
  /\ LET f == Top(th)
         S == f.self
     IN \/ /\ f.pc = "enter"
           /\ Lock(th, S, "loop")
           /\ UNCHANGED <<m, ret, fatal, env>>
        \/ /\ f.pc = "loop" /\ InArgs(f.i, f.v)
           /\ m' \in Written(th, S, Assigned(S, f.v[f.i]))
           /\ fatal' \in MayCrashOnWrite(th, S)
           /\ stack' = SetTop(th, [f EXCEPT !.i = @ + 1])
           /\ UNCHANGED <<mux, ret, env>>
        \/ /\ f.pc = "loop" /\ ~InArgs(f.i, f.v)
           /\ mux' = Unlocked(th, S)
           /\ stack' = Wake(Pop(th), mux[S].rwait)
           /\ ret' = [ret EXCEPT ![th] = RetVoid]
           /\ UNCHANGED <<m, fatal, env>>

\* func (s *Set[V]) Delete(v ...V)
Delete(th) ==
  /\ Running(th) /\ Top(th).fn = "Delete"
  /\ LET f == Top(th)
         S == f.self
     IN \/ /\ f.pc = "enter"
           /\ Lock(th, S, "loop")
           /\ UNCHANGED <<m, ret, fatal, env>>
        \/ /\ f.pc = "loop" /\ InArgs(f.i, f.v)
           /\ m' \in Written(th, S, Deleted(S, f.v[f.i]))
           /\ fatal' \in MayCrashOnWrite(th, S)
           /\ stack' = SetTop(th, [f EXCEPT !.i = @ + 1])
           /\ UNCHANGED <<mux, ret, env>>
        \/ /\ f.pc = "loop" /\ ~InArgs(f.i, f.v)
           /\ mux' = Unlocked(th, S)
           /\ stack' = Wake(Pop(th), mux[S].rwait)
           /\ ret' = [ret EXCEPT ![th] = RetVoid]
           /\ UNCHANGED <<m, fatal, env>>

\* func (s *Set[V]) PopAny() (v V, _ bool)
PopAny(th) ==
  /\ Running(th) /\ Top(th).fn = "PopAny"
  /\ LET f == Top(th)
         S == f.self
     IN \/ /\ f.pc = "enter"
           /\ RLock(th, S, "range")
           /\ UNCHANGED <<m, ret, fatal, env>>
        \/ /\ f.pc = "range" /\ m[S] # {}
           /\ \E k \in m[S] : stack' = SetTop(th, [f EXCEPT !.k = k, !.pc = "delete"])
           /\ fatal' \in MayCrashOnRead(th, S)
           /\ UNCHANGED <<m, mux, ret, env>>
        \/ /\ f.pc = "range" /\ m[S] = {}
           /\ fatal' \in MayCrashOnRead(th, S)
           /\ mux' = RUnlocked(mux, th, S)
           /\ stack' = Pop(th)
           /\ ret' = [ret EXCEPT ![th] = RetPop(0, FALSE)]
           /\ UNCHANGED <<m, env>>
        \/ /\ f.pc = "delete"
           /\ m' \in Written(th, S, Deleted(S, f.k))
           /\ fatal' \in MayCrashOnWrite(th, S)
           /\ mux' = RUnlocked(mux, th, S)
           /\ stack' = Pop(th)
           /\ ret' = [ret EXCEPT ![th] = RetPop(f.k, TRUE)]
           /\ UNCHANGED env

\* Whether x is a key of the map of S.  A mutant never finds it.
LookupMiss(S, x) == FALSE
Lookup(S, x) == x \in m[S]

\* func (s *Set[V]) Has(v V) bool
Has(th) ==
  /\ Running(th) /\ Top(th).fn = "Has"
  /\ LET f == Top(th)
         S == f.self
     IN \/ /\ f.pc = "enter"
           /\ RLock(th, S, "lookup")
           /\ UNCHANGED <<m, ret, fatal, env>>
        \/ /\ f.pc = "lookup"
           /\ fatal' \in MayCrashOnRead(th, S)
           /\ mux' = RUnlocked(mux, th, S)
           /\ stack' = Pop(th)
           /\ ret' = [ret EXCEPT ![th] = RetBool(Lookup(S, f.v[1]))]
           /\ UNCHANGED <<m, env>>

\* func (s *Set[V]) Len() int
SetLen(th) ==
  /\ Running(th) /\ Top(th).fn = "Len"
  /\ LET f == Top(th)
         S == f.self
     IN \/ /\ f.pc = "enter"
           /\ RLock(th, S, "len")
           /\ UNCHANGED <<m, ret, fatal, env>>
        \/ /\ f.pc = "len"
           /\ fatal' \in MayCrashOnRead(th, S)
           /\ mux' = RUnlocked(mux, th, S)
           /\ stack' = Pop(th)
           /\ ret' = [ret EXCEPT ![th] = RetInt(Cardinality(m[S]))]
           /\ UNCHANGED <<m, env>>

\* func (s *Set[V]) Values() []V: the keys in the order the iteration yields them
Values(th) ==
  /\ Running(th) /\ Top(th).fn = "Values"
  /\ LET f == Top(th)
         S == f.self
     IN \/ /\ f.pc = "enter"
           /\ RLock(th, S, "range")
           /\ UNCHANGED <<m, ret, fatal, env>>
        \/ /\ f.pc = "range" /\ m[S] \ f.seen # {}
           /\ \E k \in m[S] \ f.seen :
                stack' = SetTop(th, [f EXCEPT !.seen = @ \cup {k}, !.vals = Append(@, k)])
           /\ fatal' \in MayCrashOnRead(th, S)
           /\ UNCHANGED <<m, mux, ret, env>>
        \/ /\ f.pc = "range" /\ m[S] \ f.seen = {}
           /\ fatal' \in MayCrashOnRead(th, S)
           /\ mux' = RUnlocked(mux, th, S)
           /\ stack' = Pop(th)
           /\ ret' = [ret EXCEPT ![th] = RetSeq(f.vals)]
           /\ UNCHANGED <<m, env>>

\* func (s *Set[V]) String() string
String(th) ==
  /\ Running(th) /\ Top(th).fn = "String"
  /\ LET f == Top(th)
         S == f.self
     IN \/ /\ f.pc = "enter"
           /\ RLock(th, S, "values")
           /\ UNCHANGED <<m, ret, fatal, env>>
        \/ /\ f.pc = "values"
           /\ stack' = Push(th, [f EXCEPT !.pc = "sprint"], Frame("Values", S, "none", <<>>))
           /\ UNCHANGED <<m, mux, ret, fatal, env>>
        \/ /\ f.pc = "sprint"
           /\ mux' = RUnlocked(mux, th, S)
           /\ stack' = Pop(th)
           /\ ret' = [ret EXCEPT ![th] = RetStr(ret[th].seq)]
           /\ UNCHANGED <<m, fatal, env>>

\* func (s *Set[V]) Clone() *Set[V]
Clone(th) ==
  /\ Running(th) /\ Top(th).fn = "Clone"
  /\ LET f == Top(th)
         S == f.self
     IN \/ /\ f.pc = "enter"
           /\ RLock(th, S, "values")
           /\ UNCHANGED <<m, ret, fatal, env>>
        \/ /\ f.pc = "values"
           /\ stack' = Push(th, [f EXCEPT !.pc = "insert"], Frame("Values", S, "none", <<>>))
           /\ UNCHANGED <<m, mux, ret, fatal, env>>
        \/ /\ f.pc = "insert"
           /\ mux' = RUnlocked(mux, th, S)
           /\ stack' = Pop(th)
           /\ ret' = [ret EXCEPT ![th] = RetSet(LocalInsert(New(<<>>), ret[th].seq), f.uobj)]
           /\ m' = StoredInto(f.uobj, ret[th].seq)
           /\ UNCHANGED <<fatal, env>>

\* func (s *Set[V]) HasAll(v ...V) bool
HasAll(th) ==
  /\ Running(th) /\ Top(th).fn = "HasAll"
  /\ LET f == Top(th)
         S == f.self
     IN \/ /\ f.pc = "enter"
           /\ RLock(th, S, "loop")
           /\ UNCHANGED <<m, ret, fatal, env>>
        \/ /\ f.pc = "loop" /\ InArgs(f.i, f.v)
           /\ stack' = Push(th, [f EXCEPT !.pc = "test"], Frame("Has", S, "none", <<f.v[f.i]>>))
           /\ UNCHANGED <<m, mux, ret, fatal, env>>
        \/ /\ f.pc = "test" /\ ret[th].b
           /\ stack' = SetTop(th, [f EXCEPT !.i = @ + 1, !.pc = "loop"])
           /\ UNCHANGED <<m, mux, ret, fatal, env>>
        \/ /\ \/ f.pc = "test" /\ ~ret[th].b
              \/ f.pc = "loop" /\ ~InArgs(f.i, f.v)
           /\ mux' = RUnlocked(mux, th, S)
           /\ stack' = Pop(th)
           /\ ret' = [ret EXCEPT ![th] = RetBool(f.pc = "loop")]
           /\ UNCHANGED <<m, fatal, env>>

\* func (s *Set[V]) HasAny(v ...V) bool
HasAny(th) ==
  /\ Running(th) /\ Top(th).fn = "HasAny"
  /\ LET f == Top(th)
         S == f.self
     IN \/ /\ f.pc = "enter"
           /\ RLock(th, S, "loop")
           /\ UNCHANGED <<m, ret, fatal, env>>
        \/ /\ f.pc = "loop" /\ InArgs(f.i, f.v)
           /\ stack' = Push(th, [f EXCEPT !.pc = "test"], Frame("Has", S, "none", <<f.v[f.i]>>))
           /\ UNCHANGED <<m, mux, ret, fatal, env>>
        \/ /\ f.pc = "test" /\ ~ret[th].b
           /\ stack' = SetTop(th, [f EXCEPT !.i = @ + 1, !.pc = "loop"])
           /\ UNCHANGED <<m, mux, ret, fatal, env>>
        \/ /\ \/ f.pc = "test" /\ ret[th].b
              \/ f.pc = "loop" /\ ~InArgs(f.i, f.v)
           /\ mux' = RUnlocked(mux, th, S)
           /\ stack' = Pop(th)
           /\ ret' = [ret EXCEPT ![th] = RetBool(f.pc = "test")]
           /\ UNCHANGED <<m, fatal, env>>

\* func (s *Set[V]) Difference(t *Set[V]) *Set[V]
Difference(th) ==
  /\ Running(th) /\ Top(th).fn = "Difference"
  /\ LET f == Top(th)
         S == f.self
         T == f.other
     IN \/ /\ f.pc = "enter"
           /\ RLock(th, S, "rlock_t")
           /\ UNCHANGED <<m, ret, fatal, env>>
        \/ /\ f.pc = "rlock_t"
           /\ RLock(th, T, "range")
           /\ UNCHANGED <<m, ret, fatal, env>>
        \/ /\ f.pc = "range" /\ m[S] \ f.seen # {}
           /\ \E k \in m[S] \ f.seen :
                stack' = Push(th, [f EXCEPT !.pc = "test", !.k = k, !.seen = @ \cup {k}],
                              Frame("Has", T, "none", <<k>>))
           /\ fatal' \in MayCrashOnRead(th, S)
           /\ UNCHANGED <<m, mux, ret, env>>
        \/ /\ f.pc = "test"
           /\ stack' = SetTop(th, [f EXCEPT !.pc = "range",
                                   !.u = IF ret[th].b THEN @ ELSE LocalInsert(@, <<f.k>>)])
           /\ m' = IF ret[th].b THEN m ELSE StoredInto(f.uobj, <<f.k>>)
           /\ UNCHANGED <<mux, ret, fatal, env>>
        \/ /\ f.pc = "range" /\ m[S] \ f.seen = {}
           /\ fatal' \in MayCrashOnRead(th, S)
           /\ mux' = RUnlockedBoth(th, S, T)
           /\ stack' = Pop(th)
           /\ ret' = [ret EXCEPT ![th] = RetSet(f.u, f.uobj)]
           /\ UNCHANGED <<m, env>>

\* The set Intersection ranges over and the one it looks the keys up in, for
\* operands S of ns and T of nt members.  A mutant looks the keys of S up in S.
WalkOnly(S, T, ns, nt) == [walk |-> S, oth |-> S]
Walk(S, T, ns, nt) ==
  IF ns < nt THEN [walk |-> S, oth |-> T] ELSE [walk |-> T, oth |-> S]

\* func (s *Set[V]) Intersection(t *Set[V]) *Set[V]
Intersection(th) ==
  /\ Running(th) /\ Top(th).fn = "Intersection"
  /\ LET f == Top(th)
         S == f.self
         T == f.other
     IN \/ /\ f.pc = "enter"
           /\ RLock(th, S, "rlock_t")
           /\ UNCHANGED <<m, ret, fatal, env>>
        \/ /\ f.pc = "rlock_t"
           /\ RLock(th, T, "len_s")
           /\ UNCHANGED <<m, ret, fatal, env>>
        \/ /\ f.pc = "len_s"
           /\ stack' = Push(th, [f EXCEPT !.pc = "len_t"], Frame("Len", S, "none", <<>>))
           /\ UNCHANGED <<m, mux, ret, fatal, env>>
        \/ /\ f.pc = "len_t"
           /\ stack' = Push(th, [f EXCEPT !.pc = "choose", !.n = ret[th].n],
                            Frame("Len", T, "none", <<>>))
           /\ UNCHANGED <<m, mux, ret, fatal, env>>
        \/ /\ f.pc = "choose"
           /\ stack' = SetTop(th, [f EXCEPT !.pc = "range",
                                   !.walk = Walk(S, T, f.n, ret[th].n).walk,
                                   !.oth = Walk(S, T, f.n, ret[th].n).oth])
           /\ UNCHANGED <<m, mux, ret, fatal, env>>
        \/ /\ f.pc = "range" /\ m[f.walk] \ f.seen # {}
           /\ \E k \in m[f.walk] \ f.seen :
                stack' = Push(th, [f EXCEPT !.pc = "test", !.k = k, !.seen = @ \cup {k}],
                              Frame("Has", f.oth, "none", <<k>>))
           /\ fatal' \in MayCrashOnRead(th, f.walk)
           /\ UNCHANGED <<m, mux, ret, env>>
        \/ /\ f.pc = "test"
           /\ stack' = SetTop(th, [f EXCEPT !.pc = "range",
                                   !.u = IF ret[th].b THEN LocalInsert(@, <<f.k>>) ELSE @])
           /\ m' = IF ret[th].b THEN StoredInto(f.uobj, <<f.k>>) ELSE m
           /\ UNCHANGED <<mux, ret, fatal, env>>
        \/ /\ f.pc = "range" /\ m[f.walk] \ f.seen = {}
           /\ fatal' \in MayCrashOnRead(th, f.walk)
           /\ mux' = RUnlockedBoth(th, S, T)
           /\ stack' = Pop(th)
           /\ ret' = [ret EXCEPT ![th] = RetSet(f.u, f.uobj)]
           /\ UNCHANGED <<m, env>>

\* func (s *Set[V]) IsSuperset(t *Set[V]) bool
IsSuperset(th) ==
  /\ Running(th) /\ Top(th).fn = "IsSuperset"
  /\ LET f == Top(th)
         S == f.self
         T == f.other
     IN \/ /\ f.pc = "enter"
           /\ RLock(th, S, "rlock_t")
           /\ UNCHANGED <<m, ret, fatal, env>>
        \/ /\ f.pc = "rlock_t"
           /\ RLock(th, T, "range")
           /\ UNCHANGED <<m, ret, fatal, env>>
        \/ /\ f.pc = "range" /\ m[T] \ f.seen # {}
           /\ \E k \in m[T] \ f.seen :
                stack' = Push(th, [f EXCEPT !.pc = "test", !.k = k, !.seen = @ \cup {k}],
                              Frame("Has", S, "none", <<k>>))
           /\ fatal' \in MayCrashOnRead(th, T)
           /\ UNCHANGED <<m, mux, ret, env>>
        \/ /\ f.pc = "test" /\ ret[th].b
           /\ stack' = Goto(th, "range")
           /\ UNCHANGED <<m, mux, ret, fatal, env>>
        \/ /\ f.pc = "test" /\ ~ret[th].b
           /\ mux' = RUnlockedBoth(th, S, T)
           /\ stack' = Pop(th)
           /\ ret' = [ret EXCEPT ![th] = RetBool(FALSE)]
           /\ UNCHANGED <<m, fatal, env>>
        \/ /\ f.pc = "range" /\ m[T] \ f.seen = {}
           /\ fatal' \in MayCrashOnRead(th, T)
           /\ mux' = RUnlockedBoth(th, S, T)
           /\ stack' = Pop(th)
           /\ ret' = [ret EXCEPT ![th] = RetBool(TRUE)]
           /\ UNCHANGED <<m, env>>

\* Whether the maps of S and T have as many keys.  A mutant does not compare.
SameLenAlways(S, T) == TRUE
SameLen(S, T) == Cardinality(m[S]) = Cardinality(m[T])

\* func (s *Set[V]) Equal(t *Set[V]) bool
Equal(th) ==
  /\ Running(th) /\ Top(th).fn = "Equal"
  /\ LET f == Top(th)
         S == f.self
         T == f.other
     IN \/ /\ f.pc = "enter"
           /\ RLock(th, S, "rlock_t")
           /\ UNCHANGED <<m, ret, fatal, env>>
        \/ /\ f.pc = "rlock_t"
           /\ RLock(th, T, "len")
           /\ UNCHANGED <<m, ret, fatal, env>>
        \/ /\ f.pc = "len" /\ SameLen(S, T)
           /\ stack' = Push(th, [f EXCEPT !.pc = "result"], Frame("IsSuperset", S, T, <<>>))
           /\ fatal' \in {a \/ b : a \in MayCrashOnRead(th, S), b \in MayCrashOnRead(th, T)}
           /\ UNCHANGED <<m, mux, ret, env>>
        \/ /\ f.pc = "len" /\ ~SameLen(S, T)
           /\ fatal' \in {a \/ b : a \in MayCrashOnRead(th, S), b \in MayCrashOnRead(th, T)}
           /\ mux' = RUnlockedBoth(th, S, T)
           /\ stack' = Pop(th)
           /\ ret' = [ret EXCEPT ![th] = RetBool(FALSE)]
           /\ UNCHANGED <<m, env>>
        \/ /\ f.pc = "result"
           /\ mux' = RUnlockedBoth(th, S, T)
           /\ stack' = Pop(th)
           /\ ret' = [ret EXCEPT ![th] = RetBool(ret[th].b)]
           /\ UNCHANGED <<m, fatal, env>>

\* func (s *Set[V]) Union(t *Set[V]) *Set[V]
Union(th) ==
  /\ Running(th) /\ Top(th).fn = "Union"
  /\ LET f == Top(th)
         S == f.self
         T == f.other
     IN \/ /\ f.pc = "enter"
           /\ stack' = Push(th, [f EXCEPT !.pc = "assign"], Frame("Clone", S, "none", <<>>))
           /\ UNCHANGED <<m, mux, ret, fatal, env>>
        \/ /\ f.pc = "assign"
           /\ stack' = SetTop(th, [f EXCEPT !.pc = "rlock_s", !.u = ret[th].set,
                                   !.uobj = ret[th].obj])
           /\ UNCHANGED <<m, mux, ret, fatal, env>>
        \/ /\ f.pc = "rlock_s"
           /\ RLock(th, S, "rlock_t")
           /\ UNCHANGED <<m, ret, fatal, env>>
        \/ /\ f.pc = "rlock_t"
           /\ RLock(th, T, "range")
           /\ UNCHANGED <<m, ret, fatal, env>>
        \/ /\ f.pc = "range" /\ m[T] \ f.seen # {}
           /\ \E k \in m[T] \ f.seen :
                /\ stack' = SetTop(th, [f EXCEPT !.seen = @ \cup {k},
                                        !.u = LocalInsert(@, <<k>>)])
                /\ m' = StoredInto(f.uobj, <<k>>)
           /\ fatal' \in MayCrashOnRead(th, T)
           /\ UNCHANGED <<mux, ret, env>>
        \/ /\ f.pc = "range" /\ m[T] \ f.seen = {}
           /\ fatal' \in MayCrashOnRead(th, T)
           /\ mux' = RUnlockedBoth(th, S, T)
           /\ stack' = Pop(th)
           /\ ret' = [ret EXCEPT ![th] = RetSet(f.u, f.uobj)]
           /\ UNCHANGED <<m, env>>

----------------------------------------------------------------------------
(* The callers.  A goroutine makes one public call at a time; when the     *)
(* call has returned, the caller takes the result: a returned set becomes  *)
(* the set named by the call's dst, a new object with a lock of its own.   *)

Idle(th) == ~fatal /\ stack[th] = <<>> /\ cur[th].fn = "none"
\* th's public call has returned and its result is in ret[th].
Returned(th) == ~fatal /\ stack[th] = <<>> /\ cur[th].fn # "none"

NoOrigin == [fn |-> "none", a |-> "none", b |-> "none"]

\* th makes the public call c.
Invoke(th, c) ==
  /\ Idle(th)
  /\ stack' = [stack EXCEPT ![th] =
                 <<Frame(c.fn, ref[c.self],
                         IF c.other = "none" THEN "none" ELSE ref[c.other], c.v)>>]
  /\ cur' = [cur EXCEPT ![th] = c]
  /\ onlyPop' = IF c.fn \in {"Insert", "Delete"}
                THEN [onlyPop EXCEPT ![c.self] = FALSE] ELSE onlyPop
  /\ UNCHANGED <<m, mux, ret, fatal, abs, m0, popped, derived, ref>>

\* th makes the next call of its program.
ProgInvoke(th) ==
  /\ ncalls[th] < Len(prog[th])
  /\ Invoke(th, prog[th][ncalls[th] + 1])
  /\ ncalls' = [ncalls EXCEPT ![th] = @ + 1]
  /\ UNCHANGED prog

\* The caller takes the result of th's call.
Complete(th) ==
  /\ Returned(th)
  /\ LET c == cur[th]
         r == ret[th]
         S == c.self
         stores == c.dst # "none"
         fresh == stores /\ r.obj = "new"
         mutates == c.fn \in Writers
         Stale(X) ==
           \/ mutates /\ (X = S \/ derived[X].a = S \/ derived[X].b = S)
           \/ stores /\ (derived[X].a = c.dst \/ derived[X].b = c.dst)
     IN /\ cur' = [cur EXCEPT ![th] = NoCall]
        /\ ret' = [ret EXCEPT ![th] = NoRet]
        /\ m' = IF fresh THEN [m EXCEPT ![c.dst] = r.set] ELSE m
        /\ mux' = IF fresh THEN [mux EXCEPT ![c.dst] = FreshMux(Threads)] ELSE mux
        /\ ref' = IF stores THEN [ref EXCEPT ![c.dst] = IF fresh THEN c.dst ELSE r.obj]
                  ELSE ref
        /\ m0' = IF stores THEN [m0 EXCEPT ![c.dst] = r.set] ELSE m0
        /\ abs' = CASE stores -> [abs EXCEPT ![c.dst] = r.set]
                    [] c.fn = "Insert" -> [abs EXCEPT ![S] = @ \cup Range(c.v)]
                    [] c.fn = "Delete" -> [abs EXCEPT ![S] = @ \ Range(c.v)]
                    [] c.fn = "PopAny" /\ r.b -> [abs EXCEPT ![S] = @ \ {r.n}]
                    [] OTHER -> abs
        /\ popped' = CASE stores -> [popped EXCEPT ![c.dst] = [x \in DOMAIN @ |-> 0]]
                       [] c.fn = "PopAny" /\ r.b -> [popped EXCEPT ![S][r.n] = @ + 1]
                       [] OTHER -> popped
        /\ onlyPop' = IF stores THEN [onlyPop EXCEPT ![c.dst] = TRUE] ELSE onlyPop
        /\ derived' = [X \in SetIds |->
                         IF stores /\ X = c.dst
                         THEN [fn |-> c.fn, a |-> c.self, b |-> c.other]
                         ELSE IF Stale(X) THEN NoOrigin ELSE derived[X]]
  /\ UNCHANGED <<stack, prog, fatal, ncalls>>

\* The state after construction of the sets of init (a function from names to
\* members) with goroutines T whose programs are progs.
Constructed(init, T, progs) ==
  /\ m = init
  /\ mux = [S \in DOMAIN init |-> FreshMux(T)]
  /\ stack = [th \in T |-> <<>>]
  /\ ret = [th \in T |-> NoRet]
  /\ prog = progs
  /\ cur = [th \in T |-> NoCall]
  /\ fatal = FALSE
  /\ abs = init
  /\ m0 = init
  /\ popped = [S \in DOMAIN init |-> [x \in V |-> 0]]
  /\ onlyPop = [S \in DOMAIN init |-> TRUE]
  /\ derived = [S \in DOMAIN init |-> NoOrigin]
  /\ ncalls = [th \in T |-> 0]
  /\ ref = [S \in DOMAIN init |-> S]

\* th, a caller with no program, makes any call of menu, MaxCalls calls at most.
CallAny(th, menu) ==
  /\ prog[th] = <<>>
  /\ ncalls[th] < MaxCalls
  /\ \E c \in menu : Invoke(th, c)
  /\ ncalls' = [ncalls EXCEPT ![th] = @ + 1]
  /\ UNCHANGED prog

Finished(th) == Idle(th) /\ ncalls[th] = Len(prog[th])
AllDone == \A th \in Threads : Finished(th)

----------------------------------------------------------------------------
(* N goroutines each inserting M values of their own into one empty set.   *)

\* The values goroutine th inserts, in order.
Block(th) == [j \in 1..PerThread |-> (th - 1) * PerThread + j]
\* In one call, or one call per value.
InsertProgs(th) ==
  { <<Call("Insert", "s", "none", Block(th), "none")>>,
    [j \in 1..PerThread |-> Call("Insert", "s", "none", <<Block(th)[j]>>, "none")] }

InitInsert ==
  \E progs \in [1..Inserters -> UNION {InsertProgs(th) : th \in 1..Inserters}] :
    /\ \A th \in 1..Inserters : progs[th] \in InsertProgs(th)
    /\ Constructed([S \in {"s"} |-> New(<<>>)], 1..Inserters, progs)

NextInsert ==
  \/ \E th \in Threads : ProgInvoke(th)
  \/ \E th \in Threads : Insert(th)
  \/ \E th \in Threads : Complete(th)

SpecInsert == InitInsert /\ [][NextInsert]_vars

\* C1: when every goroutine has finished its inserts of values no other
\* goroutine inserts, the set has Inserters * PerThread members and every
\* inserted value is one of them; no interleaving stops the process.
C1_NoLostInsert ==
  /\ ~fatal
  /\ AllDone =>
       /\ Cardinality(m["s"]) = Inserters * PerThread
       /\ \A th \in Threads : Range(Block(th)) \subseteq m["s"]

C1_Witness ==
  /\ AllDone
  /\ Cardinality(Threads) >= 2
  /\ Cardinality(m["s"]) = Inserters * PerThread

----------------------------------------------------------------------------
(* Where a frame touches the map and the locks.                            *)

TwoOperand == {"Difference", "Intersection", "Equal", "IsSuperset", "Union"}
SingleSet == {"Has", "HasAll", "HasAny", "Len", "Values", "String", "Clone",
              "Insert", "Delete"}

\* The sets whose map the next statement of frame f reads.
Reads(f) ==
  CASE f.fn \in {"Has"} /\ f.pc = "lookup" -> {f.self}
    [] f.fn = "Len" /\ f.pc = "len" -> {f.self}
    [] f.fn \in {"Values", "PopAny", "Difference"} /\ f.pc = "range" -> {f.self}
    [] f.fn = "Intersection" /\ f.pc = "range" -> {f.walk}
    [] f.fn \in {"IsSuperset", "Union"} /\ f.pc = "range" -> {f.other}
    [] f.fn = "Equal" /\ f.pc = "len" -> {f.self, f.other}
    [] OTHER -> {}

\* The sets whose map the next statement of frame f writes.
Writes(f) ==
  CASE f.fn \in {"Insert", "Delete"} /\ f.pc = "loop" /\ InArgs(f.i, f.v) -> {f.self}
    [] f.fn = "PopAny" /\ f.pc = "delete" -> {f.self}
    [] OTHER -> {}

\* th cannot take a step until another goroutine releases a lock.
Blocked(th) ==
  /\ Running(th)
  /\ \/ Top(th).pc = "rwait"
     \/ Top(th).pc = "drain" /\ ~NoReaders(Top(th).self)
     \/ Top(th).fn \in {"Insert", "Delete"} /\ Top(th).pc = "enter"
        /\ mux[Top(th).self].w # NoThread

\* Some goroutine is inside a call and no goroutine can ever take a step.
Deadlocked ==
  /\ ~fatal
  /\ \E th \in Threads : Running(th)
  /\ \A th \in Threads : Blocked(th) \/ Finished(th)

----------------------------------------------------------------------------
(* Two goroutines on two sets s and t: one makes any public call, the      *)
(* other a mutating call.                                                  *)

ConcSets == {"s", "t"}

ReadCalls ==
  {Call("Has", S, "none", <<x>>, "none") : S \in ConcSets, x \in V}
  \cup {Call(fn, S, "none", <<>>, "none") :
          fn \in {"Len", "Values", "String", "Clone"}, S \in ConcSets}
  \cup {Call(fn, S, "none", q, "none") :
          fn \in {"HasAll", "HasAny"}, S \in ConcSets, q \in ArgLists}
  \cup {Call(fn, S, T, <<>>, "none") : fn \in TwoOperand, S \in ConcSets, T \in ConcSets}

WriteCalls ==
  {Call(fn, S, "none", <<x>>, "none") :
     fn \in {"Insert", "Delete"}, S \in ConcSets, x \in V}
  \cup {Call("PopAny", S, "none", <<>>, "none") : S \in ConcSets}

InitConc ==
  \E init \in [ConcSets -> SUBSET V], c1 \in ReadCalls \cup WriteCalls, c2 \in WriteCalls :
    Constructed(init, {1, 2}, <<(<<c1>>), (<<c2>>)>>)

NextConc ==
  \/ \E th \in Threads : ProgInvoke(th)
  \/ \E th \in Threads : Complete(th)
  \/ \E th \in Threads : LockDrained(th)
  \/ \E th \in Threads : Insert(th)
  \/ \E th \in Threads : Delete(th)
  \/ \E th \in Threads : PopAny(th)
  \/ \E th \in Threads : Has(th)
  \/ \E th \in Threads : SetLen(th)
  \/ \E th \in Threads : Values(th)
  \/ \E th \in Threads : String(th)
  \/ \E th \in Threads : Clone(th)
  \/ \E th \in Threads : HasAll(th)
  \/ \E th \in Threads : HasAny(th)
  \/ \E th \in Threads : Difference(th)
  \/ \E th \in Threads : Intersection(th)
  \/ \E th \in Threads : IsSuperset(th)
  \/ \E th \in Threads : Equal(th)
  \/ \E th \in Threads : Union(th)

SpecConc == InitConc /\ [][NextConc]_vars

\* Deadlocked is exactly: a call is in progress and no step is possible.
DeadlockedIsStuck ==
  ~fatal => (Deadlocked <=> ((\E th \in Threads : Running(th)) /\ ~ENABLED NextConc))

\* Every call of every goroutine's program is one of fns on set S.
AllCalls(fns, S) ==
  \A th \in Threads : \A j \in 1..Len(prog[th]) :
    prog[th][j].fn \in fns /\ prog[th][j].self = S

\* C2: a goroutine about to read a set's map holds that set's lock, and a
\* goroutine about to write a set's map (Insert, Delete, PopAny) holds it in
\* exclusive mode; so no two goroutines are about to write the same map, and
\* none is about to read a map another is about to write.
C2_LockModes ==
  /\ \A th \in Threads :
       Running(th) =>
         /\ \A S \in Reads(Top(th)) : Holds(th, S)
         /\ \A S \in Writes(Top(th)) : HoldsExclusive(th, S)
  /\ \A th \in Threads, o \in Threads :
       (th # o /\ Running(th) /\ Running(o)) =>
         Writes(Top(th)) \cap (Writes(Top(o)) \cup Reads(Top(o))) = {}

\* C3: when only PopAny calls mutate s, no member is returned with found = true
\* by two calls, and when every call has returned the number of calls that
\* returned found = true is the number of members removed.
PopCount(S) ==
  LET RECURSIVE Sum(_)
      Sum(X) == IF X = {} THEN 0
                ELSE LET x == CHOOSE y \in X : TRUE IN popped[S][x] + Sum(X \ {x})
  IN Sum(DOMAIN popped[S])
C3_PopAnyLinearizable ==
  AllCalls({"PopAny"}, "s") =>
    /\ \A x \in DOMAIN popped["s"] : popped["s"][x] <= 1
    /\ AllDone => PopCount("s") = Cardinality(m0["s"]) - Cardinality(m["s"])

\* C4: a two-operand call with the receiver as its other operand, made while
\* the other goroutines call Insert or Delete, is never part of a deadlock.
C4_SelfOperandReturns ==
  \A th \in Threads :
    ( /\ cur[th].fn \in TwoOperand
      /\ cur[th].self = cur[th].other
      /\ \A o \in Threads \ {th} : \A j \in 1..Len(prog[o]) :
           prog[o][j].fn \in {"Insert", "Delete"} /\ prog[o][j].self = cur[th].self )
    => ~Deadlocked

\* C5: no goroutine holds a set's lock twice, or waits for a set's lock (in
\* either mode) while it holds that lock.
C5_NoReacquire ==
  \A th \in Threads, S \in SetIds :
    /\ mux[S].readers[th] <= 1
    /\ th \in mux[S].rwait => mux[S].readers[th] = 0
    /\ mux[S].w = th => mux[S].readers[th] = 0

\* C6: inside a two-operand call on two distinct sets, whenever the goroutine
\* is about to read the map of either operand it holds the shared lock of both.
C6_BothLockedBeforeRead ==
  \A th \in Threads :
    ( /\ Running(th)
      /\ cur[th].fn \in TwoOperand
      /\ cur[th].self # cur[th].other
      /\ Reads(Top(th)) \cap {cur[th].self, cur[th].other} # {} )
    => HoldsShared(th, cur[th].self) /\ HoldsShared(th, cur[th].other)

\* C7: when every goroutine makes single-set calls on s (Has, HasAll, HasAny,
\* Len, Values, String, Clone, Insert, Delete), no state is reached in which
\* every goroutine inside a call is blocked on the lock.
C7_SingleSetNoDeadlock ==
  AllCalls(SingleSet, "s") => ~Deadlocked

----------------------------------------------------------------------------
(* A single caller mutating and querying one set s = New(v0...).           *)

MutateCalls ==
  {Call(fn, "s", "none", q, "none") : fn \in {"Insert", "Delete"}, q \in ArgLists}
  \cup {Call("Has", "s", "none", <<x>>, "none") : x \in V}
  \cup {Call("PopAny", "s", "none", <<>>, "none"), Call("Len", "s", "none", <<>>, "none")}

InitMutate ==
  \E v0 \in ArgLists : Constructed([S \in {"s"} |-> New(v0)], {1}, <<(<<>>)>>)

CallMutate(th) == CallAny(th, MutateCalls)

NextMutate ==
  \/ \E th \in Threads : CallMutate(th)
  \/ \E th \in Threads : Complete(th)
  \/ \E th \in Threads : Insert(th)
  \/ \E th \in Threads : Delete(th)
  \/ \E th \in Threads : PopAny(th)
  \/ \E th \in Threads : Has(th)
  \/ \E th \in Threads : SetLen(th)

SpecMutate == InitMutate /\ [][NextMutate]_vars

\* The values PopAny calls on S have returned with found = true.
PoppedSet(S) == {x \in DOMAIN popped[S] : popped[S][x] > 0}

\* C8: as long as the single caller has only popped from s (no Insert, no
\* Delete): the values returned with found = true are pairwise distinct members
\* of the initial set; a successful call removes exactly the value it returns;
\* and the call that returns found = false comes after exactly |M| successful
\* calls, which returned all of M, and leaves s empty.
C8_PopAnyDrains ==
  onlyPop["s"] =>
    /\ \A x \in DOMAIN popped["s"] : popped["s"][x] <= 1
    /\ PoppedSet("s") \subseteq m0["s"]
    /\ Idle(1) => m["s"] = m0["s"] \ PoppedSet("s")
    /\ (Returned(1) /\ cur[1].fn = "PopAny" /\ ret[1].b) =>
         /\ ret[1].n \in m0["s"] \ PoppedSet("s")
         /\ m["s"] = (m0["s"] \ PoppedSet("s")) \ {ret[1].n}
    /\ (Returned(1) /\ cur[1].fn = "PopAny" /\ ~ret[1].b) =>
         /\ PoppedSet("s") = m0["s"]
         /\ PopCount("s") = Cardinality(m0["s"])
         /\ m["s"] = {}

C8_Witness ==
  /\ onlyPop["s"]
  /\ Returned(1) /\ cur[1].fn = "PopAny" /\ ~ret[1].b
  /\ Cardinality(m0["s"]) >= 2
  /\ PopCount("s") = Cardinality(m0["s"])

\* C9: between the calls of the single caller the members of s are the
\* mathematical set abs (the initial values with the same adds and removes
\* applied), Has(x) returns whether x is in it and Len() its cardinality.
C9_RefinesMathSet ==
  /\ Idle(1) => m["s"] = abs["s"]
  /\ (Returned(1) /\ cur[1].fn = "Has") => ret[1].b = (cur[1].v[1] \in abs["s"])
  /\ (Returned(1) /\ cur[1].fn = "Len") => ret[1].n = Cardinality(abs["s"])
  /\ (Returned(1) /\ cur[1].fn = "PopAny" /\ ret[1].b) => ret[1].n \in abs["s"]

\* An Insert with a duplicate in its argument list, one value already present,
\* has returned and left s with the members of the mathematical set.
C9_Witness ==
  /\ Returned(1) /\ cur[1].fn = "Insert"
  /\ Len(cur[1].v) > Cardinality(Range(cur[1].v))
  /\ Range(cur[1].v) \subseteq abs["s"]
  /\ ncalls[1] >= 2
  /\ m["s"] = abs["s"] \cup Range(cur[1].v)

\* C18: with a single caller no PopAny ends in a fatal error; a PopAny on a set
\* that was empty when it was called returns the zero value with found=false
\* and leaves the set empty; and a PopAny that returns found=false was called
\* on an empty set.
C18_PopAnyEmpty ==
  /\ cur[1].fn = "PopAny" => ~fatal
  /\ (Returned(1) /\ cur[1].fn = "PopAny" /\ abs["s"] = {}) =>
       /\ ~ret[1].b /\ ret[1].n = 0 /\ ret[1].kind = "pop"
       /\ m["s"] = {}
  /\ (Returned(1) /\ cur[1].fn = "PopAny" /\ ~ret[1].b) => abs["s"] = {}

\* PopAny has returned found=false on a set that was constructed with members
\* and emptied by the calls before.
C18_Witness ==
  /\ Returned(1) /\ cur[1].fn = "PopAny" /\ ~ret[1].b
  /\ m0["s"] # {} /\ abs["s"] = {}
  /\ ncalls[1] >= 2

----------------------------------------------------------------------------
(* A single caller taking unions of two sets s and t into u and v.         *)

InitUnion ==
  \E a \in SUBSET V, b \in SUBSET V :
    Constructed([S \in {"s", "t", "u", "v"} |->
                   IF S = "s" THEN a ELSE IF S = "t" THEN b ELSE New(<<>>)],
                {1}, <<(<<>>)>>)

UnionCalls ==
  {Call("Union", a, b, <<>>, d) : a \in {"s", "t"}, b \in {"s", "t"}, d \in {"u", "v"}}
  \cup {Call("Equal", "u", "v", <<>>, "none"), Call("Equal", "v", "u", <<>>, "none")}
  \cup {Call("IsSuperset", a, b, <<>>, "none") : a \in {"u", "v"}, b \in {"s", "t"}}

CallUnion(th) == CallAny(th, UnionCalls)

NextUnion ==
  \/ \E th \in Threads : CallUnion(th)
  \/ \E th \in Threads : Complete(th)
  \/ \E th \in Threads : Union(th)
  \/ \E th \in Threads : Clone(th)
  \/ \E th \in Threads : Values(th)
  \/ \E th \in Threads : Equal(th)
  \/ \E th \in Threads : IsSuperset(th)
  \/ \E th \in Threads : Has(th)

SpecUnion == InitUnion /\ [][NextUnion]_vars

\* S holds the result of a.fn(b).
IsResultOf(S, fn, a, b) == derived[S] = [fn |-> fn, a |-> a, b |-> b]
\* S holds the result of a.Union(b).
IsUnionOf(S, a, b) == IsResultOf(S, "Union", a, b)

\* C10: a.Union(b) returns exactly the members of a or of b; Equal of the
\* results of a.Union(b) and b.Union(a) returns true; and the result of
\* a.Union(b) IsSuperset of a and of b.
C10_Union ==
  /\ (Returned(1) /\ cur[1].fn = "Union") =>
       ret[1].set = m[cur[1].self] \cup m[cur[1].other]
  /\ (Returned(1) /\ cur[1].fn = "Equal") =>
       \A a \in {"s", "t"}, b \in {"s", "t"} :
         (IsUnionOf(cur[1].self, a, b) /\ IsUnionOf(cur[1].other, b, a)) => ret[1].b
  /\ (Returned(1) /\ cur[1].fn = "IsSuperset") =>
       \A a \in {"s", "t"}, b \in {"s", "t"} :
         (IsUnionOf(cur[1].self, a, b) /\ cur[1].other \in {a, b}) => ret[1].b

\* Equal has returned for the results of s.Union(t) and t.Union(s), where
\* neither of s and t contains the other.
C10_Witness ==
  /\ Returned(1) /\ cur[1].fn = "Equal" /\ ret[1].b
  /\ IsUnionOf(cur[1].self, "s", "t") /\ IsUnionOf(cur[1].other, "t", "s")
  /\ m["s"] \ m["t"] # {} /\ m["t"] \ m["s"] # {}
  /\ m[cur[1].self] = m["s"] \cup m["t"]

----------------------------------------------------------------------------
(* A single caller taking intersections of two sets s and t into u and v.  *)

\* Two sets s and t of any members, and two empty sets u and v for results.
InitOperands ==
  \E a \in SUBSET V, b \in SUBSET V :
    Constructed([S \in {"s", "t", "u", "v"} |->
                   IF S = "s" THEN a ELSE IF S = "t" THEN b ELSE New(<<>>)],
                {1}, <<(<<>>)>>)

IntersectCalls ==
  {Call("Intersection", a, b, <<>>, d) : a \in {"s", "t"}, b \in {"s", "t"}, d \in {"u", "v"}}
  \cup {Call("Equal", "u", "v", <<>>, "none"), Call("Equal", "v", "u", <<>>, "none")}

CallIntersect(th) == CallAny(th, IntersectCalls)

NextIntersect ==
  \/ \E th \in Threads : CallIntersect(th)
  \/ \E th \in Threads : Complete(th)
  \/ \E th \in Threads : Intersection(th)
  \/ \E th \in Threads : SetLen(th)
  \/ \E th \in Threads : Equal(th)
  \/ \E th \in Threads : IsSuperset(th)
  \/ \E th \in Threads : Has(th)

SpecIntersect == InitOperands /\ [][NextIntersect]_vars

\* C11: a.Intersection(b) returns exactly the values that are members of both
\* a and b, whichever operand has fewer members and when they have as many;
\* and Equal of the results of a.Intersection(b) and b.Intersection(a) returns
\* true.
C11_Intersection ==
  /\ (Returned(1) /\ cur[1].fn = "Intersection") =>
       ret[1].set = m[cur[1].self] \cap m[cur[1].other]
  /\ (Returned(1) /\ cur[1].fn = "Equal") =>
       \A a \in {"s", "t"}, b \in {"s", "t"} :
         (/\ IsResultOf(cur[1].self, "Intersection", a, b)
          /\ IsResultOf(cur[1].other, "Intersection", b, a)) => ret[1].b

\* Equal has returned for the results of s.Intersection(t) and
\* t.Intersection(s), where s has fewer members than t, they share a member and
\* t has a member of its own.
C11_Witness ==
  /\ Returned(1) /\ cur[1].fn = "Equal" /\ ret[1].b
  /\ IsResultOf(cur[1].self, "Intersection", "s", "t")
  /\ IsResultOf(cur[1].other, "Intersection", "t", "s")
  /\ Cardinality(m["s"]) < Cardinality(m["t"])
  /\ m["s"] \cap m["t"] # {} /\ m["t"] \ m["s"] # {}
  /\ m[cur[1].self] = m["s"] \cap m["t"]

----------------------------------------------------------------------------
(* A single caller taking differences of two sets s and t into u and v.    *)

DifferenceCalls ==
  {Call("Difference", a, b, <<>>, d) : a \in {"s", "t"}, b \in {"s", "t"}, d \in {"u", "v"}}
  \cup {Call("Equal", d, a, <<>>, "none") : d \in {"u", "v"}, a \in {"s", "t"}}

CallDifference(th) == CallAny(th, DifferenceCalls)

NextDifference ==
  \/ \E th \in Threads : CallDifference(th)
  \/ \E th \in Threads : Complete(th)
  \/ \E th \in Threads : Difference(th)
  \/ \E th \in Threads : Equal(th)
  \/ \E th \in Threads : IsSuperset(th)
  \/ \E th \in Threads : Has(th)

SpecDifference == InitOperands /\ [][NextDifference]_vars

\* C12: a.Difference(b) returns exactly the members of a that are not members
\* of b; and when a and b have no member in common, Equal of the result of
\* a.Difference(b) and a returns true, whichever of s and t is a.
C12_Difference ==
  /\ (Returned(1) /\ cur[1].fn = "Difference") =>
       ret[1].set = m[cur[1].self] \ m[cur[1].other]
  /\ (Returned(1) /\ cur[1].fn = "Equal") =>
       \A a \in {"s", "t"}, b \in {"s", "t"} :
         (/\ IsResultOf(cur[1].self, "Difference", a, b)
          /\ cur[1].other = a
          /\ m[a] \cap m[b] = {}) => ret[1].b

\* Equal has returned for the result of t.Difference(s) and t, where s and t
\* are disjoint and neither is empty.
C12_Witness ==
  /\ Returned(1) /\ cur[1].fn = "Equal" /\ ret[1].b
  /\ IsResultOf(cur[1].self, "Difference", "t", "s") /\ cur[1].other = "t"
  /\ m["s"] # {} /\ m["t"] # {} /\ m["s"] \cap m["t"] = {}
  /\ m[cur[1].self] = m["t"]

----------------------------------------------------------------------------
(* A single caller of the methods that only read their operands, on two    *)
(* sets s and t, in every pairing of receiver and argument.                 *)

InitReadOnly ==
  \E a \in SUBSET V, b \in SUBSET V :
    Constructed([S \in {"s", "t"} |-> IF S = "s" THEN a ELSE b], {1}, <<(<<>>)>>)

ReadOnlyOps == {"Clone", "Union", "Intersection", "Difference", "IsSuperset", "Equal"}

ReadOnlyCalls ==
  {Call("Clone", a, "none", <<>>, "none") : a \in {"s", "t"}}
  \cup {Call(fn, a, b, <<>>, "none") :
          fn \in ReadOnlyOps \ {"Clone"}, a \in {"s", "t"}, b \in {"s", "t"}}

CallReadOnly(th) == CallAny(th, ReadOnlyCalls)

NextReadOnly ==
  \/ \E th \in Threads : CallReadOnly(th)
  \/ \E th \in Threads : Complete(th)
  \/ \E th \in Threads : Clone(th)
  \/ \E th \in Threads : Values(th)
  \/ \E th \in Threads : Union(th)
  \/ \E th \in Threads : Intersection(th)
  \/ \E th \in Threads : SetLen(th)
  \/ \E th \in Threads : Difference(th)
  \/ \E th \in Threads : IsSuperset(th)
  \/ \E th \in Threads : Equal(th)
  \/ \E th \in Threads : Has(th)

SpecReadOnly == InitReadOnly /\ [][NextReadOnly]_vars

\* C13: with a single caller a.Equal(b) returns true exactly when a and b have
\* the same members, whichever of s and t is the receiver (so b.Equal(a)
\* returns the same), and true when a and b are the same set.
C13_Equal ==
  (Returned(1) /\ cur[1].fn = "Equal") =>
    /\ ret[1].b = (m[cur[1].self] = m[cur[1].other])
    /\ cur[1].self = cur[1].other => ret[1].b

\* s.Equal(t) has returned false for sets of as many members that differ.
C13_Witness ==
  /\ Returned(1) /\ cur[1].fn = "Equal" /\ ~ret[1].b
  /\ cur[1].self = "s" /\ cur[1].other = "t"
  /\ Cardinality(m["s"]) = Cardinality(m["t"]) /\ m["s"] # m["t"]

C16_OperandsUnchanged ==
  (Returned(1) /\ cur[1].fn \in ReadOnlyOps) =>
    \A X \in {"s", "t"} : m[ref[X]] = m0[X]

\* s.Union(s) has returned, after an earlier call, for a set s that is not
\* empty and lacks a member of t.
C16_Witness ==
  /\ Returned(1) /\ cur[1].fn = "Union"
  /\ cur[1].self = "s" /\ cur[1].other = "s"
  /\ ncalls[1] >= 2
  /\ m["s"] # {} /\ m["t"] \ m["s"] # {}
  /\ ret[1].set = m0["s"]

----------------------------------------------------------------------------
(* A single caller deriving a set u from s and t, then comparing u with s   *)
(* and changing u, s or t.                                                  *)

InitDerive ==
  \E a \in SUBSET V, b \in SUBSET V :
    Constructed([S \in {"s", "t", "u"} |->
                   IF S = "s" THEN a ELSE IF S = "t" THEN b ELSE New(<<>>)],
                {1}, <<(<<>>)>>)

Deriving == {"Clone", "Union", "Intersection", "Difference"}

DeriveCalls ==
  {Call("Clone", "s", "none", <<>>, "u")}
  \cup {Call(fn, "s", "t", <<>>, "u") : fn \in Deriving \ {"Clone"}}

LaterCalls ==
  {Call("Equal", "u", "s", <<>>, "none")}
  \cup {Call(fn, X, "none", <<x>>, "none") :
          fn \in {"Insert", "Delete"}, X \in {"s", "t", "u"}, x \in V}
  \cup {Call("PopAny", "u", "none", <<>>, "none")}

\* The first call derives u, the later ones do not.
CallDerive(th) == CallAny(th, IF ncalls[th] = 0 THEN DeriveCalls ELSE LaterCalls)

NextDerive ==
  \/ \E th \in Threads : CallDerive(th)
  \/ \E th \in Threads : Complete(th)
  \/ \E th \in Threads : Clone(th)
  \/ \E th \in Threads : Values(th)
  \/ \E th \in Threads : Union(th)
  \/ \E th \in Threads : Intersection(th)
  \/ \E th \in Threads : SetLen(th)
  \/ \E th \in Threads : Difference(th)
  \/ \E th \in Threads : IsSuperset(th)
  \/ \E th \in Threads : Equal(th)
  \/ \E th \in Threads : Has(th)
  \/ \E th \in Threads : Insert(th)
  \/ \E th \in Threads : Delete(th)
  \/ \E th \in Threads : PopAny(th)

SpecDerive == InitDerive /\ [][NextDerive]_vars

\* C15: Equal of the result of s.Clone() and s returns true; the set Clone,
\* Union, Intersection or Difference returns is a new object, so that no two
\* of s, t and the derived set u are one object; and when an Insert, Delete or
\* PopAny on one of them has returned, the other two have the members they
\* had before the call (which decide their Len() and Has(v)).
C15_DerivedIndependent ==
  /\ (Returned(1) /\ cur[1].fn = "Equal" /\ IsResultOf("u", "Clone", "s", "none")) =>
       ret[1].b
  /\ (Returned(1) /\ cur[1].fn \in Deriving) => ret[1].obj = "new"
  /\ \A X \in SetIds, Y \in SetIds : X # Y => ref[X] # ref[Y]
  /\ (Returned(1) /\ cur[1].fn \in Writers) =>
       \A Y \in SetIds \ {cur[1].self} : m[ref[Y]] = abs[Y]

\* An Insert on u, the clone of s, has returned and made u differ from s, which
\* is not empty and has the members it had.
C15_Witness ==
  /\ Returned(1) /\ cur[1].fn = "Insert" /\ cur[1].self = "u"
  /\ IsResultOf("u", "Clone", "s", "none")
  /\ m["s"] # {} /\ m["s"] = abs["s"]
  /\ m["u"] # m["s"]

----------------------------------------------------------------------------
(* A single caller asking a set s for all or any of a list of values.      *)

InitQuery ==
  \E a \in SUBSET V : Constructed([S \in {"s"} |-> a], {1}, <<(<<>>)>>)

QueryCalls ==
  {Call(fn, "s", "none", q, "none") : fn \in {"HasAll", "HasAny"}, q \in ArgLists}

CallQuery(th) == CallAny(th, QueryCalls)

NextQuery ==
  \/ \E th \in Threads : CallQuery(th)
  \/ \E th \in Threads : Complete(th)
  \/ \E th \in Threads : HasAll(th)
  \/ \E th \in Threads : HasAny(th)
  \/ \E th \in Threads : Has(th)

SpecQuery == InitQuery /\ [][NextQuery]_vars

----------------------------------------------------------------------------
(* One goroutine calls s.Union(t) while another makes two calls that each  *)
(* insert a value into, or delete one from, s or t.                         *)

TearWrites ==
  {Call(fn, S, "none", <<x>>, "none") :
     fn \in {"Insert", "Delete"}, S \in ConcSets, x \in V}

InitTear ==
  \E init \in [ConcSets -> SUBSET V], c1 \in TearWrites, c2 \in TearWrites :
    Constructed(init, {1, 2},
                <<(<<Call("Union", "s", "t", <<>>, "none")>>), (<<c1, c2>>)>>)

NextTear ==
  \/ \E th \in Threads : ProgInvoke(th)
  \/ \E th \in Threads : Complete(th)
  \/ \E th \in Threads : LockDrained(th)
  \/ \E th \in Threads : Insert(th)
  \/ \E th \in Threads : Delete(th)
  \/ \E th \in Threads : Union(th)
  \/ \E th \in Threads : Clone(th)
  \/ \E th \in Threads : Values(th)

SpecTear == InitTear /\ [][NextTear]_vars

\* The members of S once the first j calls of the writer's program are done:
\* each call writes one key, so these are all the instants S goes through.
RECURSIVE MembersAfter(_, _)
MembersAfter(S, j) ==
  IF j = 0 THEN m0[S]
  ELSE LET c == prog[2][j]
           before == MembersAfter(S, j - 1)
       IN IF c.self # S THEN before
          ELSE IF c.fn = "Insert" THEN before \cup Range(c.v)
          ELSE before \ Range(c.v)

\* The union of s and t once the first j calls of the writer are done.
UnionAfter(j) == MembersAfter("s", j) \cup MembersAfter("t", j)

\* C19: the set s.Union(t) returns while another goroutine inserts into and
\* deletes from s and t is the union of s and t as they were at one instant;
\* a value that is a member of s or of t at every instant is in it.
C19_UnionOfOneInstant ==
  (Returned(1) /\ cur[1].fn = "Union") =>
    /\ \E j \in 0..Len(prog[2]) : ret[1].set = UnionAfter(j)
    /\ \A x \in V : (\A j \in 0..Len(prog[2]) : x \in UnionAfter(j)) => x \in ret[1].set

----------------------------------------------------------------------------
(* Two goroutines run Difference, or Equal, on s and t with the operands    *)
(* exchanged, while a third goroutine inserts a value into s and a fourth  *)
(* deletes one from t.                                                      *)

OppositeOps == {"Difference", "Equal"}

InitOpposite ==
  \E init \in [ConcSets -> SUBSET V], fn \in OppositeOps,
     ws \in {c \in TearWrites : c.fn = "Insert" /\ c.self = "s"},
     wt \in {c \in TearWrites : c.fn = "Delete" /\ c.self = "t"} :
    Constructed(init, {1, 2, 3, 4},
                <<(<<Call(fn, "s", "t", <<>>, "none")>>),
                  (<<Call(fn, "t", "s", <<>>, "none")>>), (<<ws>>), (<<wt>>)>>)

NextOpposite ==
  \/ \E th \in Threads : ProgInvoke(th)
  \/ \E th \in Threads : Complete(th)
  \/ \E th \in Threads : LockDrained(th)
  \/ \E th \in Threads : Insert(th)
  \/ \E th \in Threads : Delete(th)
  \/ \E th \in Threads : Difference(th)
  \/ \E th \in Threads : Equal(th)
  \/ \E th \in Threads : IsSuperset(th)
  \/ \E th \in Threads : Has(th)

SpecOpposite == InitOpposite /\ [][NextOpposite]_vars

\* C20: while two goroutines run Difference or Equal on s and t in opposite
\* roles and others insert into s and delete from t, no state is reached in
\* which a call is in progress and no goroutine can take a step.
C20_OppositeRolesNoDeadlock ==
  ~Deadlocked

====
